---- MODULE Spec2Model ----
(***************************************************************************)
(* TheForge: evidence aggregation and scoring engine.                      *)
(*                                                                         *)
(* Part 1 - the quota-tracked search client (services/sources/serper.ts)   *)
(*          and the adapters that reach the same metered API directly.     *)
(* Part 2 - the aggregation orchestrator (services/aggregator.ts).         *)
(* Part 3 - the CORS proxy client (utils/corsProxy.ts).                    *)
(* Part 4 - the scoring engine (services/scoring.ts).                      *)
(* Part 5 - the source adapters searchHN, searchReddit, getTodaysPosts.    *)
(* Part 6 - the application store (hooks/useForgeStore.ts).                 *)
(***************************************************************************)
EXTENDS Integers, Sequences, FiniteSets, TLC

(***************************************************************************)
(* Program constants of serper.ts                                          *)
(***************************************************************************)
SERPER_MAX_QUERIES == 2500
SERPER_SAFETY_BUFFER == 100

(***************************************************************************)
(* Bounds of the exploration                                               *)
(***************************************************************************)
\* requests that the gated adapters send on their own, per reset period
MaxDirect == 2
\* calls of a batch still in flight when its Promise.all rejects
MaxLate == 1

VARIABLES
    configured,   \* import.meta.env.VITE_SERPER_API_KEY is set
    usage,        \* localStorage['forge_serper_usage'] : SerperUsage
    requests,     \* POSTs sent to google.serper.dev since the last reset
    granted,      \* searchGoogle() calls made while canUseSerper() held, since the last reset
    last,         \* the last operation invoked on the client and what it returned
    pc,           \* where the aggregateOpportunityData() call stands
    aborted,      \* options.signal.aborted
    opts,         \* the options of the call
    budget,       \* the events the providers may still answer with in this run
    adapter,      \* per adapter call of the run: its status and the list it resolved to
    acc,          \* the accumulators painPoints, leadUserSignals, competitors, trendingTopics
    sourcesUsed,  \* the sourcesUsed array
    result,       \* how the call settled: the AggregatedData returned or the error thrown
    currentProxyIndex,  \* index in CORS_PROXIES of the proxy that answered ok last
    proxyFailures,      \* the failure count kept for each proxy
    fetches,            \* per concurrent fetchWithCorsProxy() call: where it stands
    idea,         \* the MicroSaaSIdea passed to calculateScore()
    weights,      \* the ScoringWeights passed to it, in hundredths
    scored,       \* the ScoringResult it returned
    adapterCalls, \* per source-adapter function: where its call stands and how it settled
    isHunting,              \* the store's isHunting
    currentIdeas,           \* the store's currentIdeas
    currentVertical,        \* the store's currentVertical: a name or null
    selectedVerticalFound,  \* VERTICALS has the store's selectedVerticalId
    status,                 \* the store's status
    error,                  \* the store's error: a message or null
    scoringWeights,         \* the store's scoringWeights, in hundredths
    currentHuntController,  \* the hunt whose controller the module holds, 0 for null
    currentHuntId,          \* the module's currentHuntId
    hunts                   \* per hunt: whether its promise is pending and its signal aborted

quotaVars == <<configured, usage, requests, granted, last>>

aggVars == <<pc, aborted, opts, budget, adapter, acc, sourcesUsed, result>>

proxyVars == <<currentProxyIndex, proxyFailures, fetches>>

scoreVars == <<idea, weights, scored>>

adapterVars == <<adapterCalls>>

storeVars == <<isHunting, currentIdeas, currentVertical, selectedVerticalFound, status, error,
               scoringWeights, currentHuntController, currentHuntId, hunts>>

vars == <<configured, usage, requests, granted, last,
          pc, aborted, opts, budget, adapter, acc, sourcesUsed, result,
          currentProxyIndex, proxyFailures, fetches,
          idea, weights, scored, adapterCalls,
          isHunting, currentIdeas, currentVertical, selectedVerticalFound, status, error,
          scoringWeights, currentHuntController, currentHuntId, hunts>>

(***************************************************************************)
(* serper.ts - usage tracking                                              *)
(***************************************************************************)
\* the record getUsage() answers when nothing is stored, and the one
\* resetSerperUsage() stores
FreshUsage == [count |-> 0, firstUsed |-> 0, lastUsed |-> 0, disabled |-> FALSE]

\* getUsage(): the stored record (localStorage is taken to be available)
getUsage == usage

\* SERPER_MAX_QUERIES + SERPER_SAFETY_BUFFER : the buffer added instead of subtracted
effectiveLimit_plus == SERPER_MAX_QUERIES + SERPER_SAFETY_BUFFER

\* SERPER_MAX_QUERIES - SERPER_SAFETY_BUFFER, the expression of lines 63, 79, 98, 130
effectiveLimit == SERPER_MAX_QUERIES - SERPER_SAFETY_BUFFER

isSerperConfigured == configured

\* canUseSerper without the count comparison
canUseSerper_disabledOnly ==
    IF ~isSerperConfigured THEN FALSE
    ELSE ~getUsage.disabled

canUseSerper ==
    IF ~isSerperConfigured THEN FALSE
    ELSE ~getUsage.disabled /\ getUsage.count < effectiveLimit

\* incrementUsage(): the record it saves and the boolean it returns;
\* t1 and t2 are the two readings of Date.now() (lines 72 and 74)
incrementUsage(u, t1, t2) ==
    IF u.disabled THEN [saved |-> u, ok |-> FALSE]
    ELSE IF u.count >= effectiveLimit
         THEN [saved |-> [u EXCEPT !.disabled = TRUE], ok |-> FALSE]
         ELSE [saved |-> [u EXCEPT !.count = u.count + 1,
                                   !.lastUsed = t1,
                                   !.firstUsed = IF u.firstUsed = 0 THEN t2 ELSE u.firstUsed],
               ok |-> TRUE]

\* Math.round(x / y * 100) for x >= 0, y > 0
RoundPercent(x, y) == (200 * x + y) \div (2 * y)

Max0(x) == IF x > 0 THEN x ELSE 0

getSerperUsageStats ==
    [used        |-> getUsage.count,
     remaining   |-> Max0(effectiveLimit - getUsage.count),
     limit       |-> effectiveLimit,
     disabled    |-> getUsage.disabled,
     percentUsed |-> RoundPercent(getUsage.count, effectiveLimit)]

\* the readings of Date.now(): the code stores them and compares firstUsed
\* with 0 only, so two instants stand for all of them
Times == {1, 2}

(***************************************************************************)
(* Operations of the client                                                *)
(***************************************************************************)
CanUse ==
    /\ last' = [op |-> "canUse", ret |-> canUseSerper]
    /\ UNCHANGED <<configured, usage, requests, granted, aggVars, proxyVars, scoreVars, adapterVars, storeVars>>

UsageStats ==
    /\ last' = [op |-> "usageStats", ret |-> getSerperUsageStats]
    /\ UNCHANGED <<configured, usage, requests, granted, aggVars, proxyVars, scoreVars, adapterVars, storeVars>>

ResetUsage ==
    /\ usage' = FreshUsage
    /\ requests' = 0
    /\ granted' = 0
    /\ last' = [op |-> "resetUsage", ret |-> "void"]
    /\ UNCHANGED <<configured, aggVars, proxyVars, scoreVars, adapterVars, storeVars>>

\* searchGoogle that counts the query only once the response is ok
SearchGoogle_countOnSuccess(ok, t1, t2) ==
    IF ~configured \/ ~canUseSerper
    THEN /\ last' = [op |-> "search", ret |-> "empty"]
         /\ UNCHANGED <<configured, usage, requests, granted, aggVars, proxyVars, scoreVars, adapterVars, storeVars>>
    ELSE LET r == incrementUsage(getUsage, t1, t2) IN
         /\ usage' = IF ok THEN r.saved ELSE usage
         /\ granted' = granted + 1
         /\ requests' = requests + 1
         /\ last' = [op |-> "search", ret |-> IF ok THEN "results" ELSE "empty"]
         /\ UNCHANGED <<configured, aggVars, proxyVars, scoreVars, adapterVars, storeVars>>

\* searchGoogle without the canUseSerper() check of line 204
SearchGoogle_noGate(ok, t1, t2) ==
    IF ~configured
    THEN /\ last' = [op |-> "search", ret |-> "empty"]
         /\ UNCHANGED <<configured, usage, requests, granted, aggVars, proxyVars, scoreVars, adapterVars, storeVars>>
    ELSE LET r == incrementUsage(getUsage, t1, t2) IN
         /\ usage' = r.saved
         /\ granted' = IF canUseSerper THEN granted + 1 ELSE granted
         /\ requests' = IF r.ok THEN requests + 1 ELSE requests
         /\ last' = [op |-> "search", ret |-> IF r.ok /\ ok THEN "results" ELSE "empty"]
         /\ UNCHANGED <<configured, aggVars, proxyVars, scoreVars, adapterVars, storeVars>>

\* searchGoogle(query, options): ok is the fate of the network request
\* (response.ok and a parsable body, or a failure caught at line 270)
SearchGoogle(ok, t1, t2) ==
    IF ~configured
    THEN \* line 198: no api key
         /\ last' = [op |-> "search", ret |-> "empty"]
         /\ UNCHANGED <<configured, usage, requests, granted, aggVars, proxyVars, scoreVars, adapterVars, storeVars>>
    ELSE IF ~canUseSerper
    THEN \* line 204: blocked
         /\ last' = [op |-> "search", ret |-> "empty"]
         /\ UNCHANGED <<configured, usage, requests, granted, aggVars, proxyVars, scoreVars, adapterVars, storeVars>>
    ELSE LET r == incrementUsage(getUsage, t1, t2) IN
         /\ usage' = r.saved
         /\ granted' = granted + 1
         /\ IF ~r.ok
            THEN \* line 211
                 /\ requests' = requests
                 /\ last' = [op |-> "search", ret |-> "empty"]
            ELSE \* line 225: the request is sent after the save
                 /\ requests' = requests + 1
                 /\ last' = [op |-> "search", ret |-> IF ok THEN "results" ELSE "empty"]
         /\ UNCHANGED <<configured, aggVars, proxyVars, scoreVars, adapterVars, storeVars>>

\* searchG2Reviews, searchCapterraReviews, searchAlternativeTo, searchQuora,
\* searchMedium: each checks canUseSerper() and then posts to
\* google.serper.dev itself; what the adapter makes of the response (a list,
\* or the empty list when the response is not ok) touches no state of the
\* client and is recorded as "answer"
QuotaGatedAdapters == {"g2", "capterra", "alternativeto", "quora", "medium"}

AdapterSearch(a) ==
    IF ~canUseSerper
    THEN /\ last' = [op |-> a, ret |-> "empty"]
         /\ UNCHANGED <<configured, usage, requests, granted, aggVars, proxyVars, scoreVars, adapterVars, storeVars>>
    ELSE /\ requests < usage.count + MaxDirect
         /\ requests' = requests + 1
         /\ last' = [op |-> a, ret |-> "answer"]
         /\ UNCHANGED <<configured, usage, granted, aggVars, proxyVars, scoreVars, adapterVars, storeVars>>

Search == \E ok \in BOOLEAN, t1 \in Times, t2 \in Times : t1 <= t2 /\ SearchGoogle(ok, t1, t2)

Adapter == \E a \in QuotaGatedAdapters : AdapterSearch(a)

(***************************************************************************)
(* Part 2 - aggregator.ts                                                  *)
(***************************************************************************)
\* what a provider can answer: raw items with one of two native ids, an
\* engagement value in 1..MaxScore and a text that does or does not contain
\* a word of the lead-user lexicon
NativeIds == {"a", "b"}
MaxScore == 1
\* options.maxItemsPerSource: its default (line 418), or 1
DefaultMaxItems == 20
\* the adapter calls of one run answer with at most EventBudget events in
\* total, an event being one returned item or one rejection; every other
\* call resolves to the empty list
EventBudget == 2

RawItems == [nid : NativeIds, score : 1..MaxScore, lead : BOOLEAN]

\* the adapter calls of the four Promise.all batches, in the order in which
\* they are listed and in which their results are pushed
Wave1Calls == <<"redditPainPoints", "redditQuestions", "hnAskPosts", "hnComments",
                "hnShowPosts", "devtoPainPoints", "githubFeatures", "githubBugs",
                "soQuestions", "soHighDemand">>

Wave2Calls == <<"ihPainPoints", "ihIdeas", "lobstersPainPoints", "lobstersShow",
                "hashnodePainPoints", "hashnodeProjects", "betalistSaaS",
                "betalistImport", "oasisSaaS", "oasisVertical">>

PHCalls == <<"phPosts", "phAnalysis">>

SerperCalls == <<"serperPainPoints", "serperLeadUsers", "g2Gaps", "capterraGaps",
                 "alternatives", "quoraPainPoints", "mediumPainPoints", "mediumBuilt">>

Range(f) == {f[i] : i \in DOMAIN f}

Calls == Range(Wave1Calls) \cup Range(Wave2Calls) \cup Range(PHCalls) \cup Range(SerperCalls)

\* the calls of the optional waves that carry no .catch of their own
Uncaught == {"phPosts", "phAnalysis", "serperPainPoints", "serperLeadUsers"}

Buckets == {"painPoints", "leadUserSignals", "competitors", "trendingTopics"}

\* the accumulator each call's result is pushed to
BucketOf(c) ==
    CASE c \in {"redditPainPoints", "hnAskPosts", "hnComments", "devtoPainPoints",
                "githubBugs", "soQuestions", "ihPainPoints", "lobstersPainPoints",
                "hashnodePainPoints", "serperPainPoints", "g2Gaps", "capterraGaps",
                "quoraPainPoints", "mediumPainPoints"} -> "painPoints"
      [] c \in {"redditQuestions", "githubFeatures", "soHighDemand", "ihIdeas",
                "oasisSaaS", "serperLeadUsers", "mediumBuilt"} -> "leadUserSignals"
      [] c \in {"hnShowPosts", "lobstersShow", "betalistSaaS", "phAnalysis",
                "alternatives"} -> "competitors"
      [] OTHER -> "trendingTopics"

\* the prefix the xToEvidence conversion of the call puts before the native id
PrefixOf(c) ==
    CASE c \in {"redditPainPoints", "redditQuestions"} -> "reddit"
      [] c \in {"hnAskPosts", "hnComments", "hnShowPosts"} -> "hn"
      [] c = "devtoPainPoints" -> "devto"
      [] c \in {"githubFeatures", "githubBugs"} -> "github"
      [] c \in {"soQuestions", "soHighDemand"} -> "so"
      [] c \in {"ihPainPoints", "ihIdeas"} -> "ih"
      [] c \in {"lobstersPainPoints", "lobstersShow"} -> "lobsters"
      [] c \in {"hashnodePainPoints", "hashnodeProjects"} -> "hashnode"
      [] c \in {"betalistSaaS", "betalistImport"} -> "betalist"
      [] c \in {"oasisSaaS", "oasisVertical"} -> "oasis"
      [] c \in {"phPosts", "phAnalysis"} -> "ph"
      [] c \in {"serperPainPoints", "serperLeadUsers"} -> "serper"
      [] c = "g2Gaps" -> "g2"
      [] c = "capterraGaps" -> "capterra"
      [] c = "alternatives" -> "altto"
      [] c = "quoraPainPoints" -> "quora"
      [] OTHER -> "medium"

\* the provider a call goes to, under the name the converters give it in
\* the source field of an EvidenceItem
ProviderOf(c) ==
    CASE PrefixOf(c) = "hn" -> "hackernews"
      [] PrefixOf(c) = "so" -> "stackoverflow"
      [] PrefixOf(c) = "ih" -> "indiehackers"
      [] PrefixOf(c) = "oasis" -> "oasisofideas"
      [] PrefixOf(c) = "ph" -> "producthunt"
      [] PrefixOf(c) = "altto" -> "alternativeto"
      [] OTHER -> PrefixOf(c)

\* the score the conversion assigns: a constant for the sources without
\* engagement metrics, the provider's engagement formula otherwise
ScoreOf(c, raw) ==
    CASE PrefixOf(c) = "betalist" -> 60
      [] PrefixOf(c) = "g2" -> 50
      [] PrefixOf(c) = "capterra" -> 50
      [] PrefixOf(c) = "altto" -> 60
      [] PrefixOf(c) = "quora" -> 55
      [] PrefixOf(c) = "medium" -> 45
      [] OTHER -> raw.score

\* redditToEvidence ... mediumToEvidence
ToEvidence(c, raw) ==
    [id       |-> <<PrefixOf(c), raw.nid>>,
     score    |-> ScoreOf(c, raw),
     lead     |-> raw.lead,
     leadTag  |-> FALSE,
     isImport |-> (c = "betalistImport")]

\* arr.slice(0, n)
Slice(arr, n) == SubSeq(arr, 1, IF Len(arr) < n THEN Len(arr) ELSE n)

\* the Serper results are pushed whole, every other result is cut to
\* maxItemsPerSource
Pushed(c, items, maxItems) ==
    LET kept == IF c \in {"serperPainPoints", "serperLeadUsers"}
                THEN items ELSE Slice(items, maxItems)
    IN [i \in 1..Len(kept) |-> ToEvidence(c, kept[i])]

NoCall == [st |-> "unissued", items |-> <<>>]
Discarded == [st |-> "discarded", items |-> <<>>]
Pending == [st |-> "pending", items |-> <<>>]
Rejected == [st |-> "rejected", items |-> <<>>]
Resolved(items) == [st |-> "resolved", items |-> items]

Cost(o) == IF o.st = "rejected" THEN 1 ELSE Len(o.items)

FixedScore == {"betalist", "g2", "capterra", "altto", "quora", "medium"}

\* the raw items a call can return; the attributes that no line reads for
\* this call (the text of an item that is not pushed to painPoints, the
\* engagement of a source whose score is a constant) are held fixed
RawItemsOf(c) ==
    {r \in RawItems : /\ (BucketOf(c) # "painPoints" => ~r.lead)
                      /\ (PrefixOf(c) \in FixedScore => r.score = 1)}

Payloads(c, n) == UNION {[1..k -> RawItemsOf(c)] : k \in 1..n}

Eventful(c, n) == IF n < 1 THEN {}
                  ELSE {Rejected} \cup {Resolved(p) : p \in Payloads(c, n)}

\* the ways the calls cs of one batch can settle with a budget of n events:
\* functions from the calls of the batch to their outcomes
RECURSIVE Answers(_, _)
Answers(cs, n) ==
    IF cs = <<>> THEN {<<>>}
    ELSE UNION {{(Head(cs) :> o) @@ rest : rest \in Answers(Tail(cs), n - Cost(o))} :
                  o \in {Resolved(<<>>)} \cup Eventful(Head(cs), n)}

RECURSIVE SeqSum(_)
SeqSum(q) == IF q = <<>> THEN 0 ELSE Head(q) + SeqSum(Tail(q))

\* the events a batch's outcomes use up
Spent(cs, outs) == SeqSum([i \in 1..Len(cs) |-> Cost(outs[cs[i]])])

\* the calls of a batch start
Issue(ad, cs) == [c \in Calls |-> IF c \in Range(cs) THEN Pending ELSE ad[c]]

\* the calls of a batch have settled and nothing reads what they answered
Discard(ad, cs) == [c \in Calls |-> IF c \in Range(cs) THEN Discarded ELSE ad[c]]

\* the calls of a batch have settled with the outcomes outs
Settle(ad, cs, outs) ==
    [c \in Calls |-> IF c \in Range(cs) THEN outs[c] ELSE ad[c]]

\* the value a call contributes to the destructured array: a rejection that
\* is caught by the call's own .catch becomes the empty default
ValueOf(o) == IF o.st = "resolved" THEN o.items ELSE <<>>

\* the orders in which the calls of a batch that answered items can have
\* completed; where a call that answered nothing stood among them shows in
\* no accumulator
Arrivals(cs, outs) ==
    LET full == SelectSeq(cs, LAMBDA c : ValueOf(outs[c]) # <<>>)
        n == Len(full)
    IN {q \in [1..n -> Range(full)] : \A i, j \in 1..n : q[i] = q[j] => i = j}

\* the results taken in the order of their arrival
Gather_asArrived(cs, arrival) ==
    arrival \o SelectSeq(cs, LAMBDA c : c \notin Range(arrival))

\* const [x, y, ...] = await Promise.all([...]): the results stand at the
\* places of their calls in the array literal, whatever order they arrived in
Gather(cs, arrival) == cs

\* the pushes that follow a batch, in source order
RECURSIVE Merge(_, _, _, _)
Merge(a, cs, outs, maxItems) ==
    IF cs = <<>> THEN a
    ELSE LET c == Head(cs)
             b == BucketOf(c)
             a1 == [a EXCEPT ![b] = a[b] \o Pushed(c, ValueOf(outs[c]), maxItems)]
         IN Merge(a1, Tail(cs), outs, maxItems)

\* a Promise.all rejects when a call without its own .catch rejects
BatchRejects(cs, outs) ==
    \E c \in Range(cs) : c \in Uncaught /\ outs[c].st = "rejected"

\* the calls of a batch that can still be in flight when its Promise.all
\* settles: none when it fulfils; when it rejects, which it does at the
\* first rejection, any of the other calls. Nobody reads what such a call
\* answers, so it is taken to answer nothing.
Lates(cs, outs) ==
    IF ~BatchRejects(cs, outs) THEN {{}}
    ELSE {late \in SUBSET {c \in Range(cs) : outs[c] = Resolved(<<>>)} :
             Cardinality(late) <= MaxLate}

\* the calls of a batch have settled with the outcomes outs, but for the
\* calls late, which are still in flight
SettleBut(ad, cs, outs, late) ==
    [c \in Calls |-> IF c \in late THEN ad[c] ELSE Settle(ad, cs, outs)[c]]

\* a sweep that moves the matching items instead of copying them
LeadUserSweep_moved(a) ==
    LET hits == SelectSeq(a.painPoints, LAMBDA it : it.lead)
    IN [a EXCEPT !.leadUserSignals =
            a.leadUserSignals \o [i \in 1..Len(hits) |-> [hits[i] EXCEPT !.leadTag = TRUE]],
                 !.painPoints = SelectSeq(a.painPoints, LAMBDA it : ~it.lead)]

\* lines 718-736: the items of painPoints whose text matches the lexicon are
\* pushed to leadUserSignals with the extra tag
LeadUserSweep(a) ==
    LET hits == SelectSeq(a.painPoints, LAMBDA it : it.lead)
    IN [a EXCEPT !.leadUserSignals =
            a.leadUserSignals \o [i \in 1..Len(hits) |-> [hits[i] EXCEPT !.leadTag = TRUE]]]

\* dedupe that keeps every element
dedupe_keepAll(arr) == arr

\* Array.from(new Map(arr.map(item => [item.id, item])).values()): one entry
\* per id, at the place of the first occurrence, holding the last occurrence
dedupe(arr) ==
    LET n == Len(arr)
        firsts == {i \in 1..n : \A j \in 1..(i - 1) : arr[j].id # arr[i].id}
        nth(k) == CHOOSE i \in firsts : Cardinality({j \in firsts : j < i}) = k - 1
        lastOf(i) == CHOOSE j \in 1..n :
                        /\ arr[j].id = arr[i].id
                        /\ \A k \in (j + 1)..n : arr[k].id # arr[i].id
    IN [k \in 1..Cardinality(firsts) |-> arr[lastOf(nth(k))]]

\* the array left in the order of arrival
SortByScore_asPushed(arr) == arr

\* arr.sort((a, b) => b.score - a.score): stable, descending by score
SortByScore(arr) ==
    LET n == Len(arr)
        rank(i) == 1 + Cardinality({j \in 1..n : arr[j].score > arr[i].score})
                     + Cardinality({j \in 1..(i - 1) : arr[j].score = arr[i].score})
    IN [k \in 1..n |-> arr[CHOOSE i \in 1..n : rank(i) = k]]

\* lines 742-753
AggregatedData(a, su) ==
    [kind            |-> "AggregatedData",
     painPoints      |-> SortByScore(dedupe(a.painPoints)),
     leadUserSignals |-> SortByScore(dedupe(a.leadUserSignals)),
     competitors     |-> SortByScore(dedupe(a.competitors)),
     trendingTopics  |-> SortByScore(dedupe(a.trendingTopics)),
     sourcesUsed     |-> su,
     totalItems      |-> Len(a.painPoints) + Len(a.leadUserSignals)
                          + Len(a.competitors) + Len(a.trendingTopics)]

NoResult == [kind |-> "none"]
AbortError == [kind |-> "AbortError"]

EmptyAcc == [b \in Buckets |-> <<>>]

InitialSources == <<"hackernews", "devto", "github", "stackoverflow",
                    "indiehackers", "lobsters", "hashnode", "betalist", "oasisofideas">>

SerperSources == <<"serper", "g2", "capterra", "alternativeto", "quora", "medium">>

Options == [useSerper : BOOLEAN, useProductHunt : BOOLEAN, maxItemsPerSource : {1, DefaultMaxItems}]

\* throw new DOMException('Aggregation aborted', 'AbortError')
Throw(ad) ==
    /\ pc' = "cancelled"
    /\ result' = AbortError
    /\ adapter' = ad
    /\ UNCHANGED <<acc, sourcesUsed, opts>>

\* lines 718-753: sweep, dedupe, sort, return
Return(a, ad, su) ==
    LET swept == LeadUserSweep(a) IN
    /\ pc' = "returned"
    /\ acc' = swept
    /\ adapter' = ad
    /\ sourcesUsed' = su
    /\ result' = AggregatedData(swept, su)
    /\ UNCHANGED opts

\* lines 647-669: the Serper-powered batch starts, or the run finishes
SerperOrReturn(a, ad, su) ==
    IF opts.useSerper
    THEN /\ pc' = "serper"
         /\ acc' = a
         /\ adapter' = Issue(ad, SerperCalls)
         /\ sourcesUsed' = su \o SerperSources
         /\ UNCHANGED <<result, opts>>
    ELSE Return(a, ad, su)

\* lines 627-634: the ProductHunt batch starts, or the next step is taken
ProductHuntOrNext(a, ad) ==
    IF opts.useProductHunt
    THEN /\ pc' = "ph"
         /\ acc' = a
         /\ adapter' = Issue(ad, PHCalls)
         /\ sourcesUsed' = Append(sourcesUsed, "producthunt")
         /\ UNCHANGED <<result, opts>>
    ELSE SerperOrReturn(a, ad, sourcesUsed)

\* aggregateOpportunityData without the check of line 423
Aggregate_noEntryCheck(o) ==
    /\ pc = "idle"
    /\ opts' = o
    /\ pc' = "wave1"
    /\ sourcesUsed' = InitialSources
    /\ acc' = EmptyAcc
    /\ adapter' = Issue(adapter, Wave1Calls)
    /\ UNCHANGED result
    /\ UNCHANGED <<aborted, budget, quotaVars, proxyVars, scoreVars, adapterVars, storeVars>>

\* aggregateOpportunityData(vertical, o) up to its first await
Aggregate(o) ==
    /\ pc = "idle"
    /\ opts' = o
    /\ IF aborted
       THEN \* line 423
            /\ pc' = "cancelled"
            /\ result' = AbortError
            /\ UNCHANGED <<adapter, acc, sourcesUsed>>
       ELSE /\ pc' = "wave1"
            /\ sourcesUsed' = InitialSources
            /\ acc' = EmptyAcc
            /\ adapter' = Issue(adapter, Wave1Calls)
            /\ UNCHANGED result
    /\ UNCHANGED <<aborted, budget, quotaVars, proxyVars, scoreVars, adapterVars, storeVars>>

\* the first Promise.all settles: lines 475-554
AfterWave1(outs, arrival) ==
    /\ pc = "wave1"
    /\ LET ad == Settle(adapter, Wave1Calls, outs) IN
       IF aborted
       THEN Throw(Discard(adapter, Wave1Calls))   \* line 476
       ELSE /\ pc' = "wave2"
            /\ acc' = Merge(acc, Gather(Wave1Calls, arrival), outs, opts.maxItemsPerSource)
            /\ adapter' = Issue(ad, Wave2Calls)
            /\ UNCHANGED <<result, sourcesUsed, opts>>
    /\ budget' = IF aborted THEN budget ELSE budget - Spent(Wave1Calls, outs)
    /\ UNCHANGED <<aborted, quotaVars, proxyVars, scoreVars, adapterVars, storeVars>>

\* the second Promise.all settles: lines 556-649
AfterWave2(outs, arrival) ==
    /\ pc = "wave2"
    /\ LET ad == Settle(adapter, Wave2Calls, outs) IN
       IF aborted
       THEN Throw(Discard(adapter, Wave2Calls))   \* line 557
       ELSE ProductHuntOrNext(Merge(acc, Gather(Wave2Calls, arrival), outs, opts.maxItemsPerSource), ad)
    /\ budget' = IF aborted THEN budget ELSE budget - Spent(Wave2Calls, outs)
    /\ UNCHANGED <<aborted, quotaVars, proxyVars, scoreVars, adapterVars, storeVars>>

\* the ProductHunt batch without the try/catch of lines 630-644: a rejection
\* leaves aggregateOpportunityData
AfterProductHunt_noTry(outs, late, arrival) ==
    /\ pc = "ph"
    /\ LET ad == SettleBut(adapter, PHCalls, outs, late) IN
       IF BatchRejects(PHCalls, outs)
       THEN /\ pc' = "failed"
            /\ result' = [kind |-> "Error"]
            /\ adapter' = ad
            /\ UNCHANGED <<acc, sourcesUsed, opts>>
       ELSE SerperOrReturn(Merge(acc, Gather(PHCalls, arrival), outs, opts.maxItemsPerSource), ad, sourcesUsed)
    /\ budget' = budget - Spent(PHCalls, outs)
    /\ UNCHANGED <<aborted, quotaVars, proxyVars, scoreVars, adapterVars, storeVars>>

\* the ProductHunt Promise.all settles: lines 631-649
AfterProductHunt(outs, late, arrival) ==
    /\ pc = "ph"
    /\ LET ad == SettleBut(adapter, PHCalls, outs, late)
           a == IF BatchRejects(PHCalls, outs)
                THEN acc   \* line 642
                ELSE Merge(acc, Gather(PHCalls, arrival), outs, opts.maxItemsPerSource)
       IN SerperOrReturn(a, ad, sourcesUsed)
    /\ budget' = budget - Spent(PHCalls, outs)
    /\ UNCHANGED <<aborted, quotaVars, proxyVars, scoreVars, adapterVars, storeVars>>

\* the Serper-powered Promise.all settles: lines 660-753
AfterSerper(outs, late, arrival) ==
    /\ pc = "serper"
    /\ LET ad == SettleBut(adapter, SerperCalls, outs, late)
           a == IF BatchRejects(SerperCalls, outs)
                THEN acc   \* line 713
                ELSE Merge(acc, Gather(SerperCalls, arrival), outs, opts.maxItemsPerSource)
       IN Return(a, ad, sourcesUsed)
    /\ budget' = budget - Spent(SerperCalls, outs)
    /\ UNCHANGED <<aborted, quotaVars, proxyVars, scoreVars, adapterVars, storeVars>>

\* the calls the function is waiting for
Awaited ==
    CASE pc = "wave1" -> Range(Wave1Calls)
      [] pc = "wave2" -> Range(Wave2Calls)
      [] pc = "ph" -> Range(PHCalls)
      [] pc = "serper" -> Range(SerperCalls)
      [] OTHER -> {}

\* a call whose Promise.all has rejected already settles; nothing reads
\* its answer
SettlesLate(c) ==
    /\ adapter[c].st = "pending"
    /\ c \notin Awaited
    /\ adapter' = [adapter EXCEPT ![c] = Discarded]
    /\ UNCHANGED <<pc, aborted, opts, budget, acc, sourcesUsed, result, quotaVars, proxyVars, scoreVars, adapterVars, storeVars>>

\* the caller aborts the AbortController
Abort ==
    /\ ~aborted
    /\ pc \notin {"returned", "cancelled"}
    /\ aborted' = TRUE
    /\ UNCHANGED <<pc, opts, budget, adapter, acc, sourcesUsed, result, quotaVars, proxyVars, scoreVars, adapterVars, storeVars>>

Call == \E o \in Options : Aggregate(o)
Wave1Settles ==
    \E outs \in Answers(Wave1Calls, budget) : \E arrival \in Arrivals(Wave1Calls, outs) :
        AfterWave1(outs, arrival)
Wave2Settles ==
    \E outs \in Answers(Wave2Calls, budget) : \E arrival \in Arrivals(Wave2Calls, outs) :
        AfterWave2(outs, arrival)
ProductHuntSettles ==
    \E outs \in Answers(PHCalls, budget) : \E late \in Lates(PHCalls, outs) :
        \E arrival \in Arrivals(PHCalls, outs) : AfterProductHunt(outs, late, arrival)
SerperSettles ==
    \E outs \in Answers(SerperCalls, budget) : \E late \in Lates(SerperCalls, outs) :
        \E arrival \in Arrivals(SerperCalls, outs) : AfterSerper(outs, late, arrival)
Straggler == \E c \in Calls : SettlesLate(c)

AggInit ==
    /\ pc = "idle"
    /\ aborted = FALSE
    /\ opts = [useSerper |-> FALSE, useProductHunt |-> FALSE, maxItemsPerSource |-> 1]
    /\ budget = EventBudget
    /\ adapter = [c \in Calls |-> NoCall]
    /\ acc = EmptyAcc
    /\ sourcesUsed = <<>>
    /\ result = NoResult

AggNext ==
    \/ Call \/ Wave1Settles \/ Wave2Settles \/ ProductHuntSettles \/ SerperSettles
    \/ Straggler \/ Abort


(***************************************************************************)
(* Part 3 - the CORS proxy client (utils/corsProxy.ts)                     *)
(***************************************************************************)
\* CORS_PROXIES.length
ProxyCount == 4
\* a proxy with this many failures is skipped (line 1713)
SkipThreshold == 3
\* the failure counts explored: a request is answered with a failure only
\* while the count it writes stays within MaxFailures
MaxFailures == 3

Proxies == 0..(ProxyCount - 1)

\* the calls of fetchWithCorsProxy() that can be in progress together (the
\* adapters of one wave call it concurrently)
Callers == {"f1", "f2"}

\* line 1713: the proxy is passed over unless this is the last attempt
Skipped(failures, attempt) ==
    failures >= SkipThreshold /\ attempt < ProxyCount - 1

\* the for loop from the given value of attempt up to the first attempt that
\* is not skipped, with the index and the counts as they stand; ProxyCount
\* when the loop ends
RECURSIVE NextAttempt(_, _, _)
NextAttempt(cur, fails, attempt) ==
    IF attempt >= ProxyCount THEN ProxyCount
    ELSE IF Skipped(fails[(cur + attempt) % ProxyCount], attempt)
         THEN NextAttempt(cur, fails, attempt + 1)
         ELSE attempt

\* a call: the attempt it is at, the proxy it awaits, the value of failures
\* it read at line 1712, errors.length, the number of requests it has issued
\* and, once it has returned, the answer it returned on
NoFetch == [st |-> "idle", attempt |-> 0, proxy |-> 0, failures |-> 0,
            errors |-> 0, sent |-> 0, answer |-> "none"]

\* the loop runs on from attempt until it awaits a fetch (lines 1707-1721)
\* or ends with the throw of line 1746; errs is errors.length and sent the
\* number of requests the call has issued
Proceed(k, cur, fails, attempt, errs, sent) ==
    LET n == NextAttempt(cur, fails, attempt)
        p == (cur + n) % ProxyCount
    IN fetches' = [fetches EXCEPT ![k] =
           IF n >= ProxyCount
           THEN [NoFetch EXCEPT !.st = "failed", !.errors = errs, !.sent = sent]
           ELSE [st |-> "waiting", attempt |-> n, proxy |-> p,
                 failures |-> fails[p], errors |-> errs, sent |-> sent + 1,
                 answer |-> "none"]]

\* fetchWithCorsProxy(url, options) up to its first await
FetchWithCorsProxy(k) ==
    /\ fetches[k].st # "waiting"
    /\ Proceed(k, currentProxyIndex, proxyFailures, 0, 0, 0)
    /\ UNCHANGED <<currentProxyIndex, proxyFailures, quotaVars, aggVars, scoreVars, adapterVars, storeVars>>

Answers1 == {"ok", "status", "network"}

\* the fetch settles and any response is returned, whatever its status
Respond_statusNotChecked(k, ans) ==
    /\ fetches[k].st = "waiting"
    /\ LET f == fetches[k] IN
       IF ans \in {"ok", "status"}
       THEN /\ currentProxyIndex' = f.proxy
            /\ proxyFailures' = [proxyFailures EXCEPT ![f.proxy] = 0]
            /\ fetches' = [fetches EXCEPT ![k] =
                   [NoFetch EXCEPT !.st = "returned", !.proxy = f.proxy,
                                   !.answer = ans]]
       ELSE /\ f.failures + 1 <= MaxFailures
            /\ proxyFailures' = [proxyFailures EXCEPT ![f.proxy] = f.failures + 1]
            /\ currentProxyIndex' = currentProxyIndex
            /\ Proceed(k, currentProxyIndex, proxyFailures', f.attempt + 1,
                       f.errors + 1, f.sent)
    /\ UNCHANGED <<quotaVars, aggVars, scoreVars, adapterVars, storeVars>>

\* the fetch settles, but an ok answer does not move currentProxyIndex
Respond_indexNotRecorded(k, ans) ==
    /\ fetches[k].st = "waiting"
    /\ LET f == fetches[k] IN
       IF ans = "ok"
       THEN /\ currentProxyIndex' = currentProxyIndex
            /\ proxyFailures' = [proxyFailures EXCEPT ![f.proxy] = 0]
            /\ fetches' = [fetches EXCEPT ![k] =
                   [NoFetch EXCEPT !.st = "returned", !.proxy = f.proxy,
                                   !.answer = ans]]
       ELSE /\ f.failures + 1 <= MaxFailures
            /\ proxyFailures' = [proxyFailures EXCEPT ![f.proxy] = f.failures + 1]
            /\ currentProxyIndex' = currentProxyIndex
            /\ Proceed(k, currentProxyIndex, proxyFailures', f.attempt + 1,
                       f.errors + 1, f.sent)
    /\ UNCHANGED <<quotaVars, aggVars, scoreVars, adapterVars, storeVars>>

\* the fetch settles, and an ok answer takes one failure off the count the
\* call read instead of resetting it
Respond_countDecremented(k, ans) ==
    /\ fetches[k].st = "waiting"
    /\ LET f == fetches[k] IN
       IF ans = "ok"
       THEN /\ currentProxyIndex' = f.proxy
            /\ proxyFailures' = [proxyFailures EXCEPT ![f.proxy] = f.failures - 1]
            /\ fetches' = [fetches EXCEPT ![k] =
                   [NoFetch EXCEPT !.st = "returned", !.proxy = f.proxy,
                                   !.answer = ans]]
       ELSE /\ f.failures + 1 <= MaxFailures
            /\ proxyFailures' = [proxyFailures EXCEPT ![f.proxy] = f.failures + 1]
            /\ currentProxyIndex' = currentProxyIndex
            /\ Proceed(k, currentProxyIndex, proxyFailures', f.attempt + 1,
                       f.errors + 1, f.sent)
    /\ UNCHANGED <<quotaVars, aggVars, scoreVars, adapterVars, storeVars>>

\* the awaited fetch settles: a response that is ok, a response with another
\* status, or a network error (lines 1729-1743), and the loop runs on
Respond(k, ans) ==
    /\ fetches[k].st = "waiting"
    /\ LET f == fetches[k] IN
       IF ans = "ok"
       THEN /\ currentProxyIndex' = f.proxy
            /\ proxyFailures' = [proxyFailures EXCEPT ![f.proxy] = 0]
            /\ fetches' = [fetches EXCEPT ![k] =
                   [NoFetch EXCEPT !.st = "returned", !.proxy = f.proxy,
                                   !.answer = ans]]
       ELSE /\ f.failures + 1 <= MaxFailures
            /\ proxyFailures' = [proxyFailures EXCEPT ![f.proxy] = f.failures + 1]
            /\ currentProxyIndex' = currentProxyIndex
            /\ Proceed(k, currentProxyIndex, proxyFailures', f.attempt + 1,
                       f.errors + 1, f.sent)
    /\ UNCHANGED <<quotaVars, aggVars, scoreVars, adapterVars, storeVars>>

\* a timer callback that leaves the counts as they are
ClearFailures_countsKept ==
    /\ proxyFailures' = proxyFailures
    /\ UNCHANGED <<currentProxyIndex, fetches, quotaVars, aggVars, scoreVars, adapterVars, storeVars>>

\* the setInterval callback of lines 1689-1691
ClearFailures ==
    /\ proxyFailures' = [p \in Proxies |-> 0]
    /\ UNCHANGED <<currentProxyIndex, fetches, quotaVars, aggVars, scoreVars, adapterVars, storeVars>>

Fetch == \E k \in Callers : FetchWithCorsProxy(k)

Response == \E k \in Callers, ans \in Answers1 : Respond(k, ans)

ProxyInit ==
    /\ currentProxyIndex = 0
    /\ proxyFailures = [p \in Proxies |-> 0]
    /\ fetches = [k \in Callers |-> NoFetch]

ProxyNext == Fetch \/ Response \/ ClearFailures

(***************************************************************************)
(* Part 4 - the scoring engine (services/scoring.ts)                       *)
(*                                                                         *)
(* Numbers with decimals are carried as integers: weights in hundredths,   *)
(* the friction multiplier in tenths, the confidence in hundredths; the    *)
(* arithmetic is exact.  A text field is the set of the keywords it        *)
(* contains.  An optional number is a record [has, val].                   *)
(***************************************************************************)
IMPORT_OPPORTUNITY_BONUS == 15
REVENUE_VERIFIED_BONUS == 20

Absent == [has |-> FALSE, val |-> 0]
Num(n) == [has |-> TRUE, val |-> n]

\* x || d for an optional number: the default replaces an absent value and 0
OrDefault(x, d) == IF x.has /\ x.val # 0 THEN x.val ELSE d

\* FRICTION_MULTIPLIERS, in tenths
FRICTION_MULTIPLIERS(sev) ==
    CASE sev = "critical_pain" -> 13
      [] sev = "workflow_gap" -> 10
      [] sev = "minor_bug" -> 7

\* LEAD_USER_BONUS[level] || 0
LEAD_USER_BONUS(level) == IF level \in 1..5 THEN 5 * level ELSE 0

\* Math.max(0, Math.min(100, score))
Clamp100(x) == IF x < 0 THEN 0 ELSE IF x > 100 THEN 100 ELSE x

includesAny(kws, text) == (kws \cap text) # {}

calculateAccessibility(i) ==
    LET t == i.techStackSuggestion IN
    Clamp100(50 + (IF includesAny({"react", "vue", "next"}, t) THEN 15 ELSE 0)
                + (IF includesAny({"postgres", "firebase", "supabase"}, t) THEN 10 ELSE 0)
                - (IF includesAny({"machine learning", "ai model"}, t) THEN 15 ELSE 0)
                - (IF includesAny({"iot", "hardware", "embedded"}, t) THEN 20 ELSE 0))

calculatePaymentPotential(i) ==
    Clamp100(50 + (IF includesAny({"enterprise", "business", "agency"}, i.vertical) THEN 20 ELSE 0)
                + 5 * Cardinality({"money", "cost", "expensive", "hours", "time",
                                   "revenue", "clients"} \cap i.problem)
                + 8 * Len(i.leadUserIndicators))

calculateMarketSize(i) ==
    Clamp100(50 + (IF includesAny({"niche", "specific", "specialized", "freelancer",
                           "small business"}, i.vertical) THEN 15 ELSE 0)
                - (IF includesAny({"enterprise", "global", "all industries"}, i.vertical)
                   THEN 10 ELSE 0))

calculateCompetitionLevel(i) ==
    Clamp100(50 + (IF Len(i.leadUserIndicators) > 0 THEN 15 ELSE 0)
                + (IF i.frictionSeverity = "critical_pain" THEN 10 ELSE 0)
                - (IF includesAny({"like competitors", "similar to", "another tool"}, i.problem)
                   THEN 20 ELSE 0))

calculateImplementationSpeed(i) ==
    LET t == i.techStackSuggestion IN
    Clamp100(50 + (IF includesAny({"no-code", "low-code", "supabase", "firebase", "vercel",
                           "nextjs"}, t) THEN 20 ELSE 0)
                + (IF includesAny({"api", "integration"}, t) THEN 10 ELSE 0)
                - (IF includesAny({"real-time", "video", "complex", "ml", "blockchain"}, t)
                   THEN 15 ELSE 0))

\* in hundredths
calculateConfidence(i) ==
    LET c == 50 + (IF i.evidenceLong THEN 15 ELSE 0)
                + (IF Len(i.leadUserIndicators) > 0 THEN 10 ELSE 0)
                + (IF i.frictionSeverity # "none" THEN 10 ELSE 0)
                + (IF i.jtbdFormatted THEN 15 ELSE 0)
                + (IF i.revenueVerified THEN 20 ELSE 0)
                + (IF i.estimatedMRR.has /\ i.estimatedMRR.val > 0 THEN 10 ELSE 0)
    IN IF c > 100 THEN 100 ELSE c

calculateMRRBonus(mrr) ==
    IF ~mrr.has \/ mrr.val = 0 \/ mrr.val <= 0 THEN 0
    ELSE IF mrr.val >= 50000 THEN 20
    ELSE IF mrr.val >= 10000 THEN 15
    ELSE IF mrr.val >= 1000 THEN 10
    ELSE 5

RECURSIVE leadUserBonus(_)
leadUserBonus(inds) ==
    IF inds = <<>> THEN 0 ELSE LEAD_USER_BONUS(Head(inds)) + leadUserBonus(Tail(inds))

Breakdown(i) ==
    [accessibility       |-> calculateAccessibility(i),
     paymentPotential    |-> calculatePaymentPotential(i),
     marketSize          |-> calculateMarketSize(i),
     competitionLevel    |-> calculateCompetitionLevel(i),
     implementationSpeed |-> calculateImplementationSpeed(i)]

Dimensions == {"accessibility", "paymentPotential", "marketSize", "competitionLevel",
               "implementationSpeed"}

\* breakdown.accessibility * weights.accessibility + ..., in hundredths
weightedScore(b, w) ==
    b.accessibility * w.accessibility + b.paymentPotential * w.paymentPotential
      + b.marketSize * w.marketSize + b.competitionLevel * w.competitionLevel
      + b.implementationSpeed * w.implementationSpeed

frictionMultiplier(i) ==
    IF i.frictionSeverity # "none" THEN FRICTION_MULTIPLIERS(i.frictionSeverity) ELSE 10

Bonuses(i) ==
    leadUserBonus(i.leadUserIndicators)
      + (IF i.isImportOpportunity THEN IMPORT_OPPORTUNITY_BONUS ELSE 0)
      + (IF i.revenueVerified THEN REVENUE_VERIFIED_BONUS ELSE 0)
      + calculateMRRBonus(i.estimatedMRR)

\* Math.round((base * 0.4 + weighted * 0.6) * multiplier + bonuses), base a
\* whole number, weighted in hundredths, multiplier in tenths
RoundedTotal(base, weighted, mult, bonuses) ==
    ((400 * base + 6 * weighted) * mult + 5000) \div 10000 + bonuses

Min100(x) == IF x > 100 THEN 100 ELSE x

calculateScore(i, w) ==
    LET baseScore == OrDefault(i.potentialScore, 50)
        breakdown == Breakdown(i)
    IN [totalScore |-> Min100(RoundedTotal(baseScore, weightedScore(breakdown, w),
                                           frictionMultiplier(i), Bonuses(i))),
        breakdown  |-> breakdown,
        confidence |-> calculateConfidence(i)]

NoScore == [totalScore |-> 0, breakdown |-> [d \in Dimensions |-> 0], confidence |-> 0]

DEFAULT_SCORING_WEIGHTS ==
    [accessibility |-> 25, paymentPotential |-> 30, marketSize |-> 15,
     competitionLevel |-> 15, implementationSpeed |-> 15]

\* the weight vectors explored: the default, one that sums to more than 1
\* and one with negative weights
WeightVectors ==
    {DEFAULT_SCORING_WEIGHTS, [d \in Dimensions |-> 100], [d \in Dimensions |-> -100]}

\* the ideas explored
Ideas ==
    [potentialScore      : {Absent, Num(-100), Num(0), Num(60), Num(100)},
     techStackSuggestion : {{}, {"react", "next", "nextjs", "supabase", "api"}},
     vertical            : {{}, {"enterprise"}},
     problem             : {{}, {"money", "time", "similar to"}},
     frictionSeverity    : {"none", "critical_pain", "workflow_gap", "minor_bug"},
     leadUserIndicators  : {<<>>, <<1>>, <<5, 5>>},
     isImportOpportunity : BOOLEAN,
     revenueVerified     : BOOLEAN,
     estimatedMRR        : {Absent, Num(500), Num(50000)},
     evidenceLong        : BOOLEAN,
     jtbdFormatted       : BOOLEAN]

PlainIdea ==
    [potentialScore |-> Absent, techStackSuggestion |-> {}, vertical |-> {},
     problem |-> {}, frictionSeverity |-> "none", leadUserIndicators |-> <<>>,
     isImportOpportunity |-> FALSE, revenueVerified |-> FALSE,
     estimatedMRR |-> Absent, evidenceLong |-> FALSE, jtbdFormatted |-> FALSE]

\* calculateScore(idea, weights) is called
Score ==
    /\ scored = NoScore
    /\ scored' = calculateScore(idea, weights)
    /\ UNCHANGED <<idea, weights, quotaVars, aggVars, proxyVars, adapterVars, storeVars>>

\* no call of calculateScore is in sight
ScoreIdle ==
    /\ idea = PlainIdea
    /\ weights = DEFAULT_SCORING_WEIGHTS
    /\ scored = NoScore

\* the arguments of the call
ScoreInit ==
    /\ idea \in Ideas
    /\ weights \in WeightVectors
    /\ scored = NoScore

ScoreNext == Score

(***************************************************************************)
(* Part 5 - source adapters (services/sources/hackernews.ts, reddit.ts,    *)
(* producthunt.ts): one call of searchHN, searchReddit and getTodaysPosts, *)
(* one step per await, under every outcome of the network.                 *)
(*                                                                         *)
(* A response body is unparseable or a JSON value: the list the adapter    *)
(* maps over (hits, data.children, posts.edges) is absent or an array, and *)
(* each entry is "whole", "hollow" (an object without its nested objects:  *)
(* a child without data, an edge whose node has no topics) or "null".      *)
(***************************************************************************)
MaxEntries == 2

AdapterFns == {"searchHN", "searchReddit", "getTodaysPosts"}

EntryKinds == {"whole", "hollow", "null"}

RECURSIVE SeqsUpTo(_, _)
SeqsUpTo(S, n) ==
    IF n = 0 THEN {<<>>}
    ELSE LET shorter == SeqsUpTo(S, n - 1)
         IN shorter \cup {Append(q, e) : q \in {x \in shorter : Len(x) = n - 1}, e \in S}

Unparseable == [parsed |-> FALSE, list |-> FALSE, entries |-> <<>>]

Bodies ==
    {Unparseable, [parsed |-> TRUE, list |-> FALSE, entries |-> <<>>]}
      \cup {[parsed |-> TRUE, list |-> TRUE, entries |-> es] : es \in SeqsUpTo(EntryKinds, MaxEntries)}

FetchOutcomes == {"network", "status", "ok"}

TokenBodies == {"unparseable", "noToken", "token"}

NotCalled == [st |-> "idle", outcome |-> "none", items |-> 0]
Awaiting(st) == [st |-> st, outcome |-> "none", items |-> 0]
ResolvedWith(n) == [st |-> "settled", outcome |-> "resolved", items |-> n]
Thrown == [st |-> "settled", outcome |-> "rejected", items |-> 0]

\* the property reads of the mapper's callback throw a TypeError on this entry
MapperThrows(fn, e) ==
    CASE fn = "searchHN" -> e = "null"                   \* hit.objectID
      [] fn = "searchReddit" -> e \in {"hollow", "null"}  \* child.data.title
      [] fn = "getTodaysPosts" -> e \in {"hollow", "null"} \* edge.node.topics.edges

\* list.map(callback): throws when the list is absent or the callback throws
MapThrows(fn, body) ==
    \/ ~body.list
    \/ \E k \in DOMAIN body.entries : MapperThrows(fn, body.entries[k])

Becomes(fn, c) ==
    /\ adapterCalls' = [adapterCalls EXCEPT ![fn] = c]
    /\ UNCHANGED <<quotaVars, aggVars, proxyVars, scoreVars, storeVars>>

\* searchHN / searchReddit up to their await fetch
CallSearch(fn) ==
    /\ fn \in {"searchHN", "searchReddit"}
    /\ adapterCalls[fn].st \in {"idle", "settled"}
    /\ Becomes(fn, Awaiting("fetch"))

\* their fetch settles: a rejection and a non-ok status end in the catch
SearchFetched(fn, o) ==
    /\ fn \in {"searchHN", "searchReddit"}
    /\ adapterCalls[fn].st = "fetch"
    /\ Becomes(fn, IF o = "ok" THEN Awaiting("json") ELSE ResolvedWith(0))

\* searchHN after await response.json(), all inside the try
HNParsed(body) ==
    /\ adapterCalls["searchHN"].st = "json"
    /\ Becomes("searchHN",
              IF ~body.parsed \/ MapThrows("searchHN", body)
              THEN ResolvedWith(0)
              ELSE ResolvedWith(Len(body.entries)))

\* searchReddit after await response.json(), all inside the try
RedditParsed(body) ==
    /\ adapterCalls["searchReddit"].st = "json"
    /\ Becomes("searchReddit",
              IF ~body.parsed THEN ResolvedWith(0)
              ELSE IF ~body.list THEN ResolvedWith(0)
              ELSE IF MapThrows("searchReddit", body) THEN ResolvedWith(0)
              ELSE ResolvedWith(Len(body.entries)))

\* getTodaysPosts -> queryPH -> getAccessToken up to its await fetch; without
\* credentials the token is null and getTodaysPosts returns []
CallTodaysPosts(credentials) ==
    /\ adapterCalls["getTodaysPosts"].st \in {"idle", "settled"}
    /\ Becomes("getTodaysPosts", IF credentials THEN Awaiting("token") ELSE ResolvedWith(0))

\* getAccessToken: its fetch settles
TokenFetched(o) ==
    /\ adapterCalls["getTodaysPosts"].st = "token"
    /\ Becomes("getTodaysPosts", IF o = "ok" THEN Awaiting("tokenJson") ELSE ResolvedWith(0))

\* getAccessToken after await response.json(); queryPH with the token up to
\* its await fetch
TokenParsed(b) ==
    /\ adapterCalls["getTodaysPosts"].st = "tokenJson"
    /\ Becomes("getTodaysPosts", IF b = "token" THEN Awaiting("fetch") ELSE ResolvedWith(0))

\* queryPH: its fetch settles
PHFetched(o) ==
    /\ adapterCalls["getTodaysPosts"].st = "fetch"
    /\ Becomes("getTodaysPosts", IF o = "ok" THEN Awaiting("json") ELSE ResolvedWith(0))

\* queryPH after await response.json() (inside its try), then
\* getTodaysPosts' own code, which is outside any try
PHParsed(body) ==
    /\ adapterCalls["getTodaysPosts"].st = "json"
    /\ Becomes("getTodaysPosts",
              IF ~body.parsed THEN ResolvedWith(0)
              ELSE IF ~body.list THEN ResolvedWith(0)
              ELSE IF MapThrows("getTodaysPosts", body) THEN Thrown
              ELSE ResolvedWith(Len(body.entries)))

SearchCall == \E fn \in AdapterFns : CallSearch(fn)
SearchFetch == \E fn \in AdapterFns, o \in FetchOutcomes : SearchFetched(fn, o)
HNBody == \E body \in Bodies : HNParsed(body)
RedditBody == \E body \in Bodies : RedditParsed(body)
PHCall == \E credentials \in BOOLEAN : CallTodaysPosts(credentials)
PHToken == \E o \in FetchOutcomes : TokenFetched(o)
PHTokenBody == \E b \in TokenBodies : TokenParsed(b)
PHFetch == \E o \in FetchOutcomes : PHFetched(o)
PHBody == \E body \in Bodies : PHParsed(body)

AdapterInit == adapterCalls = [fn \in AdapterFns |-> NotCalled]

AdapterNext ==
    \/ SearchCall \/ SearchFetch \/ HNBody \/ RedditBody
    \/ PHCall \/ PHToken \/ PHTokenBody \/ PHFetch \/ PHBody

(***************************************************************************)
(* Part 6 - the application store (hooks/useForgeStore.ts)                 *)
(*                                                                         *)
(* A hunt is the promise huntOpportunities(vertical, signal) created by    *)
(* one startHunting(); it is named by the value currentHuntId took when it *)
(* was started.  The setters of user, view, savedIdeas, minScoreFilter,    *)
(* status and error write none of the fields a hunt reads and are left out.*)
(***************************************************************************)
\* the values currentHuntId may take
MaxHuntId == 3
\* the ideas one hunt may come back with
MaxIdeas == 1

HuntIds == 1..MaxHuntId

NoHunt == [st |-> "none", aborted |-> FALSE]

\* the weight vectors the panel sets: the default and the solo_dev profile
StoreWeights ==
    {DEFAULT_SCORING_WEIGHTS,
     [accessibility |-> 35, paymentPotential |-> 25, marketSize |-> 10,
      competitionLevel |-> 15, implementationSpeed |-> 15]}

\* the ideas huntOpportunities() may resolve with
FoundIdeas ==
    {[PlainIdea EXCEPT !.potentialScore = Num(50), !.frictionSeverity = "workflow_gap"],
     [PlainIdea EXCEPT !.potentialScore = Num(60), !.frictionSeverity = "workflow_gap"],
     [PlainIdea EXCEPT !.potentialScore = Num(90), !.frictionSeverity = "critical_pain",
                       !.techStackSuggestion = {"react", "supabase"}]}

\* ideas.map(idea => ({...idea, potentialScore: calculateScore(idea, w).totalScore}))
Rescored(ideas, w) ==
    [n \in 1..Len(ideas) |->
        [ideas[n] EXCEPT !.potentialScore = Num(calculateScore(ideas[n], w).totalScore)]]

\* controller.abort(): the signal of hunt h reads aborted from now on
AbortHunt(hs, h) ==
    IF h \in HuntIds /\ hs[h].st = "pending" THEN [hs EXCEPT ![h].aborted = TRUE] ELSE hs

\* setSelectedVertical(verticalId): found says whether VERTICALS has the id
SetSelectedVertical(found) ==
    /\ selectedVerticalFound' = found
    /\ UNCHANGED <<isHunting, currentIdeas, currentVertical, status, error, scoringWeights,
                   currentHuntController, currentHuntId, hunts,
                   quotaVars, aggVars, proxyVars, scoreVars, adapterVars>>

\* startHunting(), up to its await
StartHunting ==
    /\ isHunting \/ ~selectedVerticalFound \/ currentHuntId < MaxHuntId
    /\ IF isHunting
       THEN UNCHANGED <<isHunting, currentIdeas, currentVertical, status, error,
                        currentHuntController, currentHuntId, hunts>>
       ELSE IF ~selectedVerticalFound
       THEN /\ error' = "Categoria no encontrada"
            /\ UNCHANGED <<isHunting, currentIdeas, currentVertical, status,
                           currentHuntController, currentHuntId, hunts>>
       ELSE /\ currentHuntId' = currentHuntId + 1
            /\ currentHuntController' = currentHuntId + 1
            /\ hunts' = [AbortHunt(hunts, currentHuntController)
                            EXCEPT ![currentHuntId + 1] = [st |-> "pending", aborted |-> FALSE]]
            /\ isHunting' = TRUE
            /\ error' = "null"
            /\ currentIdeas' = <<>>
            /\ status' = "Buscando en"
            /\ currentVertical' = "name"
    /\ UNCHANGED <<selectedVerticalFound, scoringWeights,
                   quotaVars, aggVars, proxyVars, scoreVars, adapterVars>>

\* the continuation of startHunting() that never compares hunt ids
HuntSettles_idUnchecked(h, how, ideas) ==
    /\ hunts[h].st = "pending"
    /\ how = "AbortError" => hunts[h].aborted
    /\ hunts' = [hunts EXCEPT ![h].st = "settled"]
    /\ IF how = "AbortError"
       THEN UNCHANGED <<isHunting, currentIdeas, currentVertical, status, error>>
       ELSE IF how = "ideas"
       THEN /\ currentIdeas' = Rescored(ideas, scoringWeights)
            /\ status' = "Encontradas"
            /\ isHunting' = FALSE
            /\ currentVertical' = "null"
            /\ UNCHANGED error
       ELSE /\ error' = "Busqueda fallo"
            /\ isHunting' = FALSE
            /\ currentVertical' = "null"
            /\ status' = ""
            /\ UNCHANGED currentIdeas
    /\ UNCHANGED <<selectedVerticalFound, scoringWeights, currentHuntController, currentHuntId,
                   quotaVars, aggVars, proxyVars, scoreVars, adapterVars>>

\* the continuation of startHunting() after its await: hunt h resolved with
\* ideas, or rejected with an AbortError or with another error.  An
\* AbortError comes from a check of the signal only.
HuntSettles(h, how, ideas) ==
    /\ hunts[h].st = "pending"
    /\ how = "AbortError" => hunts[h].aborted
    /\ hunts' = [hunts EXCEPT ![h].st = "settled"]
    /\ IF how = "AbortError" \/ h # currentHuntId
       THEN UNCHANGED <<isHunting, currentIdeas, currentVertical, status, error>>
       ELSE IF how = "ideas"
       THEN /\ currentIdeas' = Rescored(ideas, scoringWeights)
            /\ status' = "Encontradas"
            /\ isHunting' = FALSE
            /\ currentVertical' = "null"
            /\ UNCHANGED error
       ELSE /\ error' = "Busqueda fallo"
            /\ isHunting' = FALSE
            /\ currentVertical' = "null"
            /\ status' = ""
            /\ UNCHANGED currentIdeas
    /\ UNCHANGED <<selectedVerticalFound, scoringWeights, currentHuntController, currentHuntId,
                   quotaVars, aggVars, proxyVars, scoreVars, adapterVars>>

\* stopHunting() that leaves the flag alone
StopHunting_flagKept ==
    /\ currentHuntId < MaxHuntId
    /\ hunts' = AbortHunt(hunts, currentHuntController)
    /\ currentHuntController' = 0
    /\ currentHuntId' = currentHuntId + 1
    /\ status' = "Busqueda detenida"
    /\ currentVertical' = "null"
    /\ UNCHANGED <<isHunting, currentIdeas, error, selectedVerticalFound, scoringWeights,
                   quotaVars, aggVars, proxyVars, scoreVars, adapterVars>>

\* stopHunting()
StopHunting ==
    /\ currentHuntId < MaxHuntId
    /\ hunts' = AbortHunt(hunts, currentHuntController)
    /\ currentHuntController' = 0
    /\ currentHuntId' = currentHuntId + 1
    /\ isHunting' = FALSE
    /\ status' = "Busqueda detenida"
    /\ currentVertical' = "null"
    /\ UNCHANGED <<currentIdeas, error, selectedVerticalFound, scoringWeights,
                   quotaVars, aggVars, proxyVars, scoreVars, adapterVars>>

\* clearCurrentIdeas()
ClearCurrentIdeas ==
    /\ currentIdeas' = <<>>
    /\ UNCHANGED <<isHunting, currentVertical, status, error, selectedVerticalFound,
                   scoringWeights, currentHuntController, currentHuntId, hunts,
                   quotaVars, aggVars, proxyVars, scoreVars, adapterVars>>

\* setScoringWeights(w)
SetScoringWeights(w) ==
    /\ scoringWeights' = w
    /\ UNCHANGED <<isHunting, currentIdeas, currentVertical, status, error,
                   selectedVerticalFound, currentHuntController, currentHuntId, hunts,
                   quotaVars, aggVars, proxyVars, scoreVars, adapterVars>>

\* recalculateScores()
RecalculateScores ==
    /\ currentIdeas' = Rescored(currentIdeas, scoringWeights)
    /\ UNCHANGED <<isHunting, currentVertical, status, error, selectedVerticalFound,
                   scoringWeights, currentHuntController, currentHuntId, hunts,
                   quotaVars, aggVars, proxyVars, scoreVars, adapterVars>>

SelectVertical == \E found \in BOOLEAN : SetSelectedVertical(found)
Settlement ==
    \E h \in HuntIds, how \in {"ideas", "AbortError", "error"},
       ideas \in SeqsUpTo(FoundIdeas, MaxIdeas) : HuntSettles(h, how, ideas)
SetWeights == \E w \in StoreWeights : SetScoringWeights(w)

StoreInit ==
    /\ isHunting = FALSE
    /\ currentIdeas = <<>>
    /\ currentVertical = "null"
    /\ selectedVerticalFound = TRUE
    /\ status = ""
    /\ error = "null"
    /\ scoringWeights = DEFAULT_SCORING_WEIGHTS
    /\ currentHuntController = 0
    /\ currentHuntId = 0
    /\ hunts = [h \in HuntIds |-> NoHunt]

StoreNext ==
    \/ SelectVertical \/ StartHunting \/ Settlement \/ StopHunting
    \/ ClearCurrentIdeas \/ SetWeights \/ RecalculateScores

QuotaInit ==
    /\ configured \in BOOLEAN
    /\ usage = FreshUsage
    /\ requests = 0
    /\ granted = 0
    /\ last = [op |-> "none", ret |-> "void"]

QuotaNext == Search \/ Adapter \/ CanUse \/ UsageStats \/ ResetUsage

Init == QuotaInit /\ AggInit /\ ProxyInit /\ ScoreIdle /\ AdapterInit /\ StoreInit

SpecQuota == Init /\ [][QuotaNext]_vars

\* the API key plays no part in the proxy client
ProxyStart == Init /\ configured

SpecProxy == ProxyStart /\ [][ProxyNext]_vars

\* the interval timer of lines 1689-1691 keeps firing
SpecProxyFair == SpecProxy /\ WF_vars(ClearFailures)

ScoreStart ==
    QuotaInit /\ configured /\ AggInit /\ ProxyInit /\ ScoreInit /\ AdapterInit /\ StoreInit

SpecScore == ScoreStart /\ [][ScoreNext]_vars

AdapterStart == Init /\ configured

SpecAdapters == AdapterStart /\ [][AdapterNext]_vars

StoreStart == Init /\ configured

SpecStore == StoreStart /\ [][StoreNext]_vars

\* the orchestrator is explored with the API key present: options.useSerper
\* carries the outcome of the canUseSerper() default
AggStart == Init /\ configured

SpecAgg == AggStart /\ [][AggNext]_vars

(***************************************************************************)
(* Claims about the quota-tracked search client                            *)
(***************************************************************************)
SearchStep == \E ok \in BOOLEAN, t1 \in Times, t2 \in Times : SearchGoogle(ok, t1, t2)

\* C1: the persisted count never exceeds MAX - SAFETY_BUFFER (2400) and so
\* never reaches MAX (2500), whatever search, canUse and usageStats calls
\* are made.
C1_QuotaCeiling ==
    /\ usage.count <= SERPER_MAX_QUERIES - SERPER_SAFETY_BUFFER
    /\ usage.count < SERPER_MAX_QUERIES

\* the last increment the client grants has been made
C1_Witness ==
    /\ usage.count = SERPER_MAX_QUERIES - SERPER_SAFETY_BUFFER
    /\ last.op = "search"
    /\ granted = usage.count

\* C2: every request sent to the metered API was counted before it was
\* sent: the number of requests sent is at most the persisted count.
C2_NoUncountedQuery == requests <= usage.count

C5_SilentDegradation ==
    [][(SearchStep /\ ~canUseSerper)
         => (usage' = usage /\ requests' = requests /\ last'.ret = "empty")]_vars

\* a search refused because the count stands at the limit
C5_Witness ==
    /\ configured
    /\ usage.count >= effectiveLimit
    /\ ~canUseSerper
    /\ last = [op |-> "search", ret |-> "empty"]
    /\ requests <= usage.count

(***************************************************************************)
(* Claims about the aggregation orchestrator                               *)
(***************************************************************************)
Settled == pc \notin {"idle", "wave1", "wave2", "ph", "serper"}

Ids(arr) == {arr[i].id : i \in 1..Len(arr)}

\* what the provider behind call c answered, as far as the caller may use it
Kept(c) ==
    IF c \in {"serperPainPoints", "serperLeadUsers"}
    THEN adapter[c].items
    ELSE Slice(adapter[c].items, opts.maxItemsPerSource)

\* C6: a cancellation signalled at any moment before aggregate() settles
\* makes it fail with the abort error; it never returns an AggregatedData.
C6_CancellationSuppresses == aborted => result.kind # "AggregatedData"

\* C7: called with the signal already aborted, aggregate() fails with the
\* abort error and starts no adapter call.
C7_CancellationPrecedence ==
    [][(pc = "idle" /\ aborted /\ pc' # "idle")
         => /\ pc' = "cancelled"
            /\ result' = AbortError
            /\ \A c \in Calls : adapter'[c].st = "unissued"]_vars

\* the call was made after the abort and has failed
C7_Witness ==
    /\ aborted
    /\ pc = "cancelled"
    /\ result = AbortError
    /\ \A c \in Calls : adapter[c] = NoCall

\* C8: without a cancellation, whatever adapter calls reject or return data,
\* aggregate() settles by returning an AggregatedData; when every call
\* rejected or returned nothing, the four buckets are empty and totalItems
\* is 0.
C8_OnlyCancellationPropagates ==
    (Settled /\ ~aborted) =>
        /\ pc = "returned"
        /\ result.kind = "AggregatedData"
        /\ (\A c \in Calls : adapter[c].items = <<>>) =>
              /\ \A b \in Buckets : result[b] = <<>>
              /\ result.totalItems = 0

\* a run in which calls of both optional batches rejected and nothing was
\* returned by any provider
C8_Witness ==
    /\ pc = "returned"
    /\ ~aborted
    /\ adapter["phPosts"].st = "rejected"
    /\ adapter["serperLeadUsers"].st = "rejected"
    /\ \A c \in Calls : adapter[c].items = <<>>
    /\ result.totalItems = 0

\* C9: in a run that is not cancelled, every item returned by a successful
\* adapter call (up to maxItemsPerSource) is found by id in the bucket of
\* that call, whatever other calls rejected.
C9_FailureIsolation ==
    (pc = "returned" /\ ~aborted) =>
        \A c \in Calls :
            adapter[c].st = "resolved" =>
                \A i \in 1..Len(Kept(c)) :
                    ToEvidence(c, Kept(c)[i]).id \in Ids(result[BucketOf(c)])

\* C10: no bucket of a returned AggregatedData holds two items with the
\* same id.
C10_BucketsDeduplicated ==
    pc = "returned" =>
        \A b \in Buckets :
            \A i, j \in 1..Len(result[b]) :
                result[b][i].id = result[b][j].id => i = j

\* an accumulator held the same id twice, once through the lead-user sweep
C10_Witness ==
    /\ pc = "returned"
    /\ \E i, j \in 1..Len(acc.leadUserSignals) :
          /\ i # j
          /\ acc.leadUserSignals[i].id = acc.leadUserSignals[j].id
          /\ acc.leadUserSignals[j].leadTag
    /\ \E i, j \in 1..Len(acc.painPoints) :
          i # j /\ acc.painPoints[i].id = acc.painPoints[j].id
    /\ Len(result.leadUserSignals) = 1
    /\ Len(result.painPoints) = 1

\* C11: totalItems of a returned AggregatedData equals the sum of the sizes
\* of its four deduplicated buckets, also when adapter results repeat an id.
C11_TotalItemsIsBucketSum ==
    pc = "returned" =>
        result.totalItems = Len(result.painPoints) + Len(result.leadUserSignals)
                              + Len(result.competitors) + Len(result.trendingTopics)

\* C12: each of the four buckets of a returned AggregatedData is sorted in
\* non-increasing order of score (the scores being numbers).
C12_BucketsSorted ==
    pc = "returned" =>
        \A b \in Buckets :
            \A i \in 1..(Len(result[b]) - 1) :
                result[b][i].score >= result[b][i + 1].score

\* a bucket whose two items arrived in increasing order of score and were
\* both kept
C12_Witness ==
    /\ pc = "returned"
    /\ \E b \in Buckets :
          /\ Len(acc[b]) = 2
          /\ acc[b][1].score < acc[b][2].score
          /\ Len(result[b]) = 2
          /\ result[b][1] = acc[b][2]

Attempted == {ProviderOf(c) : c \in {x \in Calls : adapter[x].st # "unissued"}}

\* C13: sourcesUsed of a returned AggregatedData lists every provider for
\* which a call was issued in the run, whether or not it returned data, and
\* no provider whose wave was not run.
C13_SourcesUsedAreAttempted ==
    pc = "returned" => Range(result.sourcesUsed) = Attempted

\* C19: once the cancellation signal is set, aggregate() starts no further
\* wave: no adapter call that was not started before is started, so a signal
\* set during the ProductHunt wave or the second wave keeps the
\* search-quota-gated wave from starting.
C19_NoWaveAfterCancellation ==
    [][aborted => \A c \in Calls :
                     adapter[c].st = "unissued" => adapter'[c].st = "unissued"]_vars

\* the instance with this id that was appended to the accumulator first
FirstSeen(arr, id) == arr[CHOOSE i \in 1..Len(arr) :
                            /\ arr[i].id = id
                            /\ \A j \in 1..(i - 1) : arr[j].id # id]

\* C20: when an accumulator holds several items with the same id, the
\* instance kept in the returned bucket is the one that was appended first.
C20_DedupKeepsFirstSeen ==
    pc = "returned" =>
        \A b \in Buckets : \A k \in 1..Len(result[b]) :
            result[b][k] = FirstSeen(acc[b], result[b][k].id)

\* C21: from the search() call whose increment brings the stored count to
\* the limit until resetUsage(), the stored record has disabled = true and
\* usageStats() reports disabled.
C21_DisabledAtLimit ==
    usage.count >= effectiveLimit =>
        /\ usage.disabled
        /\ getSerperUsageStats.disabled

\* the wave a call belongs to
WaveOf(c) ==
    CASE c \in Range(Wave1Calls) -> 1
      [] c \in Range(Wave2Calls) -> 2
      [] c \in Range(PHCalls) -> 3
      [] OTHER -> 4

InFlight(ad) == {c \in Calls : ad[c].st = "pending"}

\* the calls in flight belong to one wave
OneWaveInFlight(ad) == \A c, d \in InFlight(ad) : WaveOf(c) = WaveOf(d)

\* what the calls that resolved in the waves before the one in flight
\* answered is in the accumulators
EarlierWavesMerged ==
    \A d \in InFlight(adapter) : \A c \in Calls :
        (WaveOf(c) < WaveOf(d) /\ adapter[c].st = "resolved") =>
            Ids(Pushed(c, adapter[c].items, opts.maxItemsPerSource))
                \subseteq Ids(acc[BucketOf(c)])

\* C25: no call of wave N+1 is started before every call of wave N has
\* settled, the items of wave N are in the accumulators before wave N+1
\* begins, and the accumulators are never written while a wave is in
\* flight: the calls in flight after a write were started after it.
C25_WaveBarrier ==
    [][/\ OneWaveInFlight(adapter')
       /\ EarlierWavesMerged'
       /\ acc' # acc => \A c \in InFlight(adapter') : adapter[c].st = "unissued"]_vars

\* a batch whose Promise.all rejected leaves the accumulators as they were
MergedIfFulfilled(a, cs) ==
    IF BatchRejects(cs, adapter) THEN a
    ELSE Merge(a, cs, adapter, opts.maxItemsPerSource)

\* the accumulators that what each call answered determines, the results
\* being taken wave by wave in the order of the source text
MergedByResults ==
    LET a1 == Merge(EmptyAcc, Wave1Calls, adapter, opts.maxItemsPerSource)
        a2 == Merge(a1, Wave2Calls, adapter, opts.maxItemsPerSource)
        a3 == MergedIfFulfilled(a2, PHCalls)
    IN MergedIfFulfilled(a3, SerperCalls)

ByResultsAlone == AggregatedData(LeadUserSweep(MergedByResults), sourcesUsed)

\* C26: for fixed results of every adapter call, the AggregatedData returned
\* (membership and order of the four buckets, items of equal score included)
\* is the same for every order in which the calls of a wave complete: it is
\* the one the results alone determine.
C26_ArrivalOrderIndependence == pc = "returned" => result = ByResultsAlone

\* two calls of the first wave have answered one item each for the same
\* bucket, with the same score, so that their order could show
C26_Witness ==
    /\ pc = "returned"
    /\ adapter["hnAskPosts"].items # <<>>
    /\ adapter["devtoPainPoints"].items # <<>>
    /\ Len(result.painPoints) = 2
    /\ result.painPoints[1].score = result.painPoints[2].score

\* C27: the lead-user sweep is additive: every painPoints item whose text
\* matches the lexicon is, by id, in the returned leadUserSignals, and the
\* sweep removes or changes no item of painPoints, competitors or
\* trendingTopics: after it they are what the merges left.
C27_SweepIsAdditive ==
    pc = "returned" =>
        LET merged == MergedByResults IN
        /\ \A i \in 1..Len(merged.painPoints) :
              merged.painPoints[i].lead =>
                  merged.painPoints[i].id \in Ids(result.leadUserSignals)
        /\ acc.painPoints = merged.painPoints
        /\ acc.competitors = merged.competitors
        /\ acc.trendingTopics = merged.trendingTopics
        /\ result.painPoints = SortByScore(dedupe(merged.painPoints))

\* a pain point that matches the lexicon was returned in both buckets, the
\* copy carrying the extra tag
C27_Witness ==
    /\ pc = "returned"
    /\ \E i \in 1..Len(result.painPoints), j \in 1..Len(result.leadUserSignals) :
          /\ result.painPoints[i].lead
          /\ ~result.painPoints[i].leadTag
          /\ result.leadUserSignals[j].id = result.painPoints[i].id
          /\ result.leadUserSignals[j].leadTag

(***************************************************************************)
(* Claims about the CORS proxy client                                      *)
(***************************************************************************)
\* the proxy to which a call starting now sends its first request
FirstTried(cur, fails) == (cur + NextAttempt(cur, fails, 0)) % ProxyCount

\* C14: when a call returns a response, currentProxyIndex is the index of
\* the proxy that produced it and that proxy's failure count is 0, so that a
\* call starting then sends its first request to that proxy; and every call
\* sends its first request to the proxy the index and the counts designate.
C14_LastKnownGood ==
    [][\A k \in Callers :
         /\ (fetches[k].st = "waiting" /\ fetches'[k].st = "returned") =>
               /\ currentProxyIndex' = fetches[k].proxy
               /\ proxyFailures'[fetches[k].proxy] = 0
               /\ fetches'[k].proxy = fetches[k].proxy
               /\ FirstTried(currentProxyIndex', proxyFailures') = fetches[k].proxy
         /\ (fetches[k].st # "waiting" /\ fetches'[k].st = "waiting") =>
               /\ fetches'[k].proxy = FirstTried(currentProxyIndex, proxyFailures)
               /\ (proxyFailures[currentProxyIndex] = 0
                     => fetches'[k].proxy = currentProxyIndex)]_vars

\* the first proxy failed and the second answered: one call has returned the
\* second proxy's response and the call that followed is asking the second
\* proxy first
C14_Witness ==
    /\ fetches["f1"].st = "returned"
    /\ fetches["f1"].proxy = 1
    /\ proxyFailures[0] = 1
    /\ currentProxyIndex = 1
    /\ fetches["f2"].st = "waiting"
    /\ fetches["f2"].sent = 1
    /\ fetches["f2"].proxy = 1

\* a call returns only on an ok answer; a call that fails has issued at least
\* one request and carries one cause per request it issued
ExhaustionSignalled ==
    \A k \in Callers :
        /\ fetches[k].st = "returned" => fetches[k].answer = "ok"
        /\ fetches[k].st = "failed" =>
              /\ fetches[k].sent >= 1
              /\ fetches[k].errors = fetches[k].sent

\* a request of call k was answered with a failure in this step
FailedAttempt(k) ==
    /\ fetches[k].st = "waiting"
    /\ fetches'[k].errors = fetches[k].errors + 1

\* C15: a call returns a response only if a proxy it asked answered ok; when
\* every proxy it asked answered with another status or a network error it
\* fails with one error carrying one cause per failed attempt; each failed
\* attempt increments the failure counter of its proxy.
C15_ExhaustionSignalled ==
    [][/\ ExhaustionSignalled'
       /\ \A k \in Callers :
             FailedAttempt(k) =>
                 proxyFailures'[fetches[k].proxy] = proxyFailures[fetches[k].proxy] + 1]_vars

\* C15 as amended: ... each failed attempt sets the failure counter of its
\* proxy to one more than the value the call read before it sent the request.
C15_ExhaustionSignalledAmended ==
    [][/\ ExhaustionSignalled'
       /\ \A k \in Callers :
             FailedAttempt(k) =>
                 proxyFailures'[fetches[k].proxy] = fetches[k].failures + 1]_vars

\* two concurrent calls have each failed after asking all four proxies, and
\* every counter stands at 1
C15_Witness ==
    /\ fetches["f1"].st = "failed"
    /\ fetches["f1"].errors = ProxyCount
    /\ fetches["f2"].st = "failed"
    /\ fetches["f2"].errors = ProxyCount
    /\ \A p \in Proxies : proxyFailures[p] = 1

\* call k settles in this step
Returns(k) == fetches[k].st # "returned" /\ fetches'[k].st = "returned"
Fails(k) == fetches[k].st # "failed" /\ fetches'[k].st = "failed"

\* C22: under every interleaving of concurrent calls across their awaits,
\* a call returns only the ok response of the proxy it was asking, or fails
\* with one cause per request it sent; currentProxyIndex always denotes a
\* proxy of the list and no failure count is negative.
C22_RaceTolerant ==
    [][/\ currentProxyIndex' \in Proxies
       /\ \A p \in Proxies : proxyFailures'[p] >= 0
       /\ \A k \in Callers :
             /\ Returns(k) => /\ fetches[k].st = "waiting"
                              /\ fetches'[k].answer = "ok"
                              /\ fetches'[k].proxy = fetches[k].proxy
             /\ Fails(k) => /\ fetches[k].st = "waiting"
                            /\ fetches'[k].sent >= 1
                            /\ fetches'[k].errors = fetches'[k].sent]_vars

\* one call has returned the second proxy's response while the other call,
\* started before, still waits for the first proxy with a count it read
\* before the first call's failure was recorded
C22_Witness ==
    /\ fetches["f1"].st = "returned"
    /\ fetches["f1"].proxy = 1
    /\ currentProxyIndex = 1
    /\ fetches["f2"].st = "waiting"
    /\ fetches["f2"].proxy = 0
    /\ fetches["f2"].attempt = 0
    /\ fetches["f2"].failures = 0
    /\ proxyFailures[0] = 1

Locked(p) == proxyFailures[p] >= SkipThreshold

\* the attempt at which call k stood before this step
PrevAttempt(k) == IF fetches[k].st = "waiting" THEN fetches[k].attempt ELSE -1

\* call k sends a request in this step
Sends(k) == fetches'[k].st = "waiting" /\ fetches'[k] # fetches[k]

\* C23: no proxy stays locked out: whatever counts have reached the skip
\* threshold, every proxy is eligible again later on (the periodic reset
\* clears all counts), and a call passes over a proxy the rotation reaches
\* only while that proxy's count is at the threshold, so after the reset a
\* call asks it when the rotation reaches it.
C23_NoPermanentLockout ==
    /\ []<>(\A p \in Proxies : ~Locked(p))
    /\ [][\A k \in Callers :
             Sends(k) =>
                 \A a \in (PrevAttempt(k) + 1)..(fetches'[k].attempt - 1) :
                     proxyFailures'[(currentProxyIndex' + a) % ProxyCount] >= SkipThreshold]_vars

\* one call is asking a locked proxy as its last resort (it read a count at
\* the threshold); the counts have been cleared since, and the other call,
\* at a place of its rotation where a locked proxy is passed over, is asking
\* the same proxy
C23_Witness ==
    /\ fetches["f1"].st = "waiting"
    /\ fetches["f1"].failures = SkipThreshold
    /\ fetches["f2"].st = "waiting"
    /\ fetches["f2"].proxy = fetches["f1"].proxy
    /\ fetches["f2"].attempt \in 1..(ProxyCount - 2)
    /\ fetches["f2"].failures = 0
    /\ \A p \in Proxies : proxyFailures[p] < SkipThreshold

\* C24: skipping never makes a call fail while a working proxy exists: a
\* call fails only after every one of the proxies has answered it with a
\* failure.
C24_NoStarvationBySkipping ==
    \A k \in Callers : fetches[k].st = "failed" => fetches[k].errors = ProxyCount

(***************************************************************************)
(* Claims about the scoring engine                                         *)
(***************************************************************************)

\* C16: for every idea and weight vector, bonuses that push the raw total
\* above 100 and inputs that push it below 0 included, the totalScore
\* returned by calculateScore() is an integer in [0, 100].
C16_Clamping == scored # NoScore => scored.totalScore \in 0..100

\* the score as the documentation states it: the base is potentialScore, 50
\* only when the field is absent, and the rounded total is clamped at both ends
DocumentedScore(i, w) ==
    LET base == IF i.potentialScore.has THEN i.potentialScore.val ELSE 50
    IN Clamp100(RoundedTotal(base, weightedScore(Breakdown(i), w),
                             frictionMultiplier(i), Bonuses(i)))

SumOfWeights(w) ==
    w.accessibility + w.paymentPotential + w.marketSize + w.competitionLevel
      + w.implementationSpeed

\* critical_pain, potentialScore 60, every dimension at 50, weights summing
\* to 1 and no bonuses
FrictionScenario ==
    /\ idea.frictionSeverity = "critical_pain"
    /\ idea.potentialScore = Num(60)
    /\ \A d \in Dimensions : scored.breakdown[d] = 50
    /\ SumOfWeights(weights) = 100
    /\ Bonuses(idea) = 0

\* C17: totalScore is clamp(round((0.4 * baseScore + 0.6 * weighted sum)
\* * multiplier + bonuses)) with baseScore the idea's potentialScore (50 only
\* when it is absent), the multiplier 1.3 / 1.0 / 0.7 (1.0 when unclassified)
\* and the bonuses added after the multiplier; in the friction scenario the
\* output is 70.
C17_ScoreFormula ==
    scored # NoScore =>
        /\ scored.totalScore = DocumentedScore(idea, weights)
        /\ FrictionScenario => scored.totalScore = 70

(***************************************************************************)
(* Claims about the source adapters                                        *)
(***************************************************************************)

\* C18: every source-adapter search function resolves to a (possibly empty)
\* sequence for every outcome of its network calls - network error,
\* non-success status, malformed or incomplete payload - and never rejects
\* to its caller.
C18_AdaptersNeverRaise ==
    \A fn \in AdapterFns : adapterCalls[fn].outcome # "rejected"

(***************************************************************************)
(* Claims about the application store                                      *)
(***************************************************************************)
\* hunt h settles in this step
SettlesNow(h) == hunts[h].st = "pending" /\ hunts'[h].st = "settled"

\* C28: the settlement of a hunt whose id is not the current hunt id, be it
\* by results, by an error or by an AbortError, changes none of
\* currentIdeas, isHunting, status, error and currentVertical.
C28_StaleHuntsNeverApplied ==
    [][\A h \in HuntIds :
          SettlesNow(h) /\ h # currentHuntId
              => UNCHANGED <<currentIdeas, isHunting, status, error, currentVertical>>]_vars

\* a hunt that was stopped has settled while a newer hunt is under way, and
\* the store still shows the newer hunt's search
C28_Witness ==
    /\ \E h \in HuntIds : h < currentHuntId /\ hunts[h].st = "settled" /\ hunts[h].aborted
    /\ currentHuntId \in HuntIds
    /\ hunts[currentHuntId].st = "pending"
    /\ isHunting
    /\ status = "Buscando en"
    /\ currentIdeas = <<>>

\* C29: isHunting holds only while the hunt whose id is the current hunt id
\* is pending, so the flag is down once every hunt has settled; and
\* startHunting() called while the flag is up changes nothing.
C29_FlagNeverSticks ==
    [][/\ isHunting' => currentHuntId' \in HuntIds /\ hunts'[currentHuntId'].st = "pending"
       /\ isHunting /\ StartHunting => UNCHANGED storeVars]_vars

\* a hunt was stopped and then rejected with its AbortError: no hunt is
\* pending and the flag is down
C29_Witness ==
    /\ \E h \in HuntIds : hunts[h].st = "settled" /\ hunts[h].aborted
    /\ \A h \in HuntIds : hunts[h].st # "pending"
    /\ ~isHunting

\* C30: recalculateScores() leaves ideas it has already scored with the same
\* weights as they are, and so it leaves the ideas startHunting() stored.
C30_RescoringIsIdempotent ==
    [][/\ RecalculateScores => Rescored(currentIdeas', scoringWeights) = currentIdeas'
       /\ (\E h \in HuntIds : SettlesNow(h)) /\ currentIdeas' # currentIdeas
              => Rescored(currentIdeas', scoringWeights) = currentIdeas']_vars

====
